---- MODULE Spec2Model ----
(***************************************************************************)
(* chartroutes_srlinux.py: one collector (main) starts one polling thread  *)
(* per target (collect_route_data); every thread samples route counters    *)
(* once per tick into the shared dictionary rtrData until its duration is  *)
(* over or the global flag stop_threads is set; main then joins the        *)
(* threads with a timeout, selects the targets that have data, scans each  *)
(* total-routes series for the convergence interval and writes the report. *)
(*                                                                         *)
(* Time is a discrete clock `now` in seconds.  Computation steps take no   *)
(* time and interleave freely; the clock advances only when no thread has  *)
(* a step it must take first (a timeout that has expired, a sleep that is  *)
(* over, a statement that does not block).  Python indices are 0-based:    *)
(* index i of a list is element i + 1 of the sequence that models it.      *)
(***************************************************************************)
EXTENDS Integers, Sequences, FiniteSets, TLC

VARIABLES
    now,              \* time.time(), in seconds since the process started
    mainPc,           \* position of main()
    targets,          \* main: targets (list of device names)
    families,         \* main: families
    starting_values,  \* main: starting_values (<<>> is None)
    ending_values,    \* main: ending_values (<<>> is None)
    startTime,        \* main: startTime
    endTime,          \* main: endTime
    stop_threads,     \* the global flag
    stopTime,         \* history: the time at which stop_threads was set
    joinIdx,          \* main: position of the join loop in threads
    joinStart,        \* main: time at which the current join began
    valid_targets,    \* main: valid_targets
    convPos,          \* main: <<position in valid_targets, idx>> of the scan
    conv_out,         \* main: what the convergence scan reported, in order
    rtrData,          \* the shared dictionary data_dict / rtrData
    device_queue,     \* the status queue
    pc,               \* per thread: position of collect_route_data
    start_time,       \* per thread: start_time
    elapsed,          \* per thread: elapsed of the tick in progress
    family_stats,     \* per thread: family_stats of the tick in progress
    data_ok,          \* per thread: execute_gnmic_command returned data
    appendPos,        \* per thread: number of appends of the tick done
    wake,             \* per thread: time at which time.sleep(1) returns
    ticks             \* history, per thread: <<failed, succeeded>> fetches

vars == <<now, mainPc, targets, families, starting_values, ending_values,
          startTime, endTime, stop_threads, stopTime, joinIdx, joinStart,
          valid_targets, convPos, conv_out, rtrData, device_queue, pc,
          start_time, elapsed, family_stats, data_ok, appendPos, wake, ticks>>

mainVars == <<mainPc, startTime, endTime, stop_threads, stopTime, joinIdx,
              joinStart, valid_targets, convPos, conv_out>>

cfgVars == <<targets, families, starting_values, ending_values>>

threadVars == <<pc, start_time, elapsed, family_stats, data_ok, appendPos,
                wake, ticks>>

----------------------------------------------------------------------------
(* Bounds of the model and constants of the program *)

\* args.duration of the modelled runs
Duration == 2
\* longest delay between Thread.start() and the first statement of the thread
MaxStartDelay == 1
\* longest time a gNMIc call that does not time out takes
MaxLatency == 0
\* execute_gnmic_command(..., timeout=10)
gnmic_timeout == 10
\* time.sleep(1) between two samples
PollSleep == 1
\* while time.time() < (endTime + 5)
Grace == 5
\* t.join(timeout=10)
JoinTimeout == 10
\* start_idx = None, end_idx = None
NoIdx == -1

\* the --families option of the modelled runs
FamilyList == <<"ipv4-unicast", "ipv6-unicast">>

ElapsedKey == "Elapsed Time"

total_key(family) == family \o " BGP Total Routes"

active_key(family) == family \o " BGP Active Routes"

Threads == 1..Len(targets)

Range(s) == {s[k] : k \in 1..Len(s)}

Max(a, b) == IF a >= b THEN a ELSE b

Abs(a) == IF a >= 0 THEN a ELSE -a

Terminal == {"done", "error"}

----------------------------------------------------------------------------
(* What one gNMI get returns *)

\* a counter as the device encodes it: a number, a string of digits, or a
\* string that is no number
Num(n) == [kind |-> "int", n |-> n]

Digits(n) == [kind |-> "digits", n |-> n]

Junk == [kind |-> "text", n |-> 0]

\* int(x) if x.isdigit() else 0, applied to strings only
ToInt(raw) == IF raw.kind = "int" THEN raw.n
              ELSE IF raw.kind = "digits" THEN raw.n ELSE 0

\* the afi-safi entries of a response, by family name: the device runs
\* ipv4-unicast and evpn, and no ipv6-unicast
Responses ==
    { [f \in {"ipv4-unicast", "evpn"} |->
          IF f = "evpn" THEN [received |-> Num(1), active |-> Num(1)]
          ELSE [received |-> Digits(2), active |-> Junk]] }

\* outcomes of execute_gnmic_command: None, or the parsed response
NoData == [ok |-> FALSE, afi |-> <<>>]

SomeData(r) == [ok |-> TRUE, afi |-> r]

Zeros(fams) == [f \in Range(fams) |-> [total |-> 0, active |-> 0]]

\* a family that the response does not hold is left out of the result
get_protocol_stats_sparse(data, fams) ==
    IF data.ok
    THEN [f \in Range(fams) \cap DOMAIN data.afi |->
             [total |-> ToInt(data.afi[f].received),
              active |-> ToInt(data.afi[f].active)]]
    ELSE Zeros(fams)

\* get_protocol_stats_by_family for protocol bgp
get_protocol_stats_by_family(data, fams) ==
    IF data.ok
    THEN [f \in Range(fams) |->
             IF f \in DOMAIN data.afi
             THEN [total |-> ToInt(data.afi[f].received),
                   active |-> ToInt(data.afi[f].active)]
             ELSE [total |-> 0, active |-> 0]]
    ELSE Zeros(fams)

\* how long a gNMIc call may take: a short time, or all of its timeout
FetchDurations == 0..MaxLatency \cup {gnmic_timeout}

----------------------------------------------------------------------------
(* The shared dictionary *)

\* data_dict[target] = {'routeStats': defaultdict(list)}; ['Elapsed Time'] = []
NewEntry == [k \in {ElapsedKey} |-> <<>>]

\* the list is replaced by its last element instead of growing
ListOverwrite(s, v) == <<v>>

\* list.append(v)
ListAppend(s, v) == Append(s, v)

\* routeStats[key].append(v) on a defaultdict(list)
DictAppend(stats, key, v) ==
    [k \in DOMAIN stats \cup {key} |->
        IF k = key
        THEN ListAppend(IF key \in DOMAIN stats THEN stats[key] ELSE <<>>, v)
        ELSE stats[k]]

SetEntry(data, target, entry) ==
    [t \in DOMAIN data \cup {target} |-> IF t = target THEN entry ELSE data[t]]

\* the key and the value of append number k (0-based) of one tick
AppendKey(fams, k) ==
    IF k = 0 THEN ElapsedKey
    ELSE IF k % 2 = 1 THEN total_key(fams[(k + 1) \div 2])
    ELSE active_key(fams[k \div 2])

AppendValue(fams, stats, el, k) ==
    IF k = 0 THEN el
    ELSE IF k % 2 = 1 THEN stats[fams[(k + 1) \div 2]].total
    ELSE stats[fams[k \div 2]].active

----------------------------------------------------------------------------
(* collect_route_data: the polling thread of targets[i] *)

Running == mainPc \notin {"done", "exit"}

\* start_time = time.time(); data_dict[target] = {...}
PollerStart(i) ==
    /\ Running
    /\ pc[i] = "init"
    /\ start_time' = [start_time EXCEPT ![i] = now]
    /\ rtrData' = SetEntry(rtrData, targets[i], NewEntry)
    /\ pc' = [pc EXCEPT ![i] = "loop"]
    /\ UNCHANGED <<now, mainVars, cfgVars, device_queue, elapsed,
                   family_stats, data_ok, appendPos, wake, ticks>>

\* the loop test without the stop flag
LoopConditionNoStop(i) == (now - start_time[i]) < Duration

\* while not stop_threads and (time.time() - start_time) < duration
LoopCondition(i) == ~stop_threads /\ (now - start_time[i]) < Duration

\* elapsed = current_time - start_time
ElapsedOf(t, st) == t - st

\* the loop test passes: the tick begins, the gNMIc call is in flight
PollerTick(i) ==
    /\ Running
    /\ pc[i] = "loop"
    /\ LoopCondition(i)
    /\ elapsed' = [elapsed EXCEPT ![i] = ElapsedOf(now, start_time[i])]
    /\ pc' = [pc EXCEPT ![i] = "fetch"]
    /\ UNCHANGED <<now, mainVars, cfgVars, rtrData, device_queue, start_time,
                   family_stats, data_ok, appendPos, wake, ticks>>

\* the loop ends without a status
PollerDoneSilent(i) ==
    /\ Running
    /\ pc[i] = "loop"
    /\ ~LoopCondition(i)
    /\ pc' = [pc EXCEPT ![i] = "done"]
    /\ UNCHANGED <<now, mainVars, cfgVars, rtrData, device_queue, start_time,
                   elapsed, family_stats, data_ok, appendPos, wake, ticks>>

\* the loop test fails: device_queue.put({target: 'Done'})
PollerDone(i) ==
    /\ Running
    /\ pc[i] = "loop"
    /\ ~LoopCondition(i)
    /\ pc' = [pc EXCEPT ![i] = "done"]
    /\ device_queue' = Append(device_queue, <<targets[i], "Done">>)
    /\ UNCHANGED <<now, mainVars, cfgVars, rtrData, start_time, elapsed,
                   family_stats, data_ok, appendPos, wake, ticks>>

\* no sleep between two samples
SleepUntilNow(t) == t

\* time.sleep(1) begun at time t returns at
SleepUntil(t) == t + PollSleep

\* the time at which the gNMIc call of the tick in progress began
FetchStart(i) == start_time[i] + elapsed[i]

\* the gNMIc call returns data before its timeout, or None (non-zero exit,
\* JSON decode failure, another error, or the timeout itself)
FetchOutcomes(i) ==
    IF now - FetchStart(i) < gnmic_timeout
    THEN {NoData} \cup {SomeData(r) : r \in Responses}
    ELSE {NoData}

\* family_stats = get_protocol_stats_by_family(...); if family_stats:
PollerFetched(i) ==
    /\ Running
    /\ pc[i] = "fetch"
    /\ now - FetchStart(i) \in FetchDurations
    /\ \E data \in FetchOutcomes(i) :
         LET stats == get_protocol_stats_by_family(data, families) IN
         /\ family_stats' = [family_stats EXCEPT ![i] = stats]
         /\ data_ok' = [data_ok EXCEPT ![i] = data.ok]
         /\ ticks' = [ticks EXCEPT ![i] =
                IF data.ok THEN <<@[1], TRUE>> ELSE <<TRUE, @[2]>>]
         /\ IF DOMAIN stats # {}
            THEN /\ pc' = [pc EXCEPT ![i] = "append"]
                 /\ appendPos' = [appendPos EXCEPT ![i] = 0]
                 /\ wake' = wake
            ELSE /\ pc' = [pc EXCEPT ![i] = "sleep"]
                 /\ appendPos' = appendPos
                 /\ wake' = [wake EXCEPT ![i] = SleepUntil(now)]
    /\ UNCHANGED <<now, mainVars, cfgVars, rtrData, device_queue, start_time,
                   elapsed>>

\* the exception is not caught: it ends the thread without a status
PollerRaiseUncaught(i) ==
    /\ Running
    /\ pc[i] = "fetch"
    /\ now - FetchStart(i) \in FetchDurations
    /\ pc' = [pc EXCEPT ![i] = "error"]
    /\ ticks' = [ticks EXCEPT ![i] = <<TRUE, @[2]>>]
    /\ UNCHANGED <<now, mainVars, cfgVars, rtrData, device_queue, start_time,
                   elapsed, family_stats, data_ok, appendPos, wake>>

\* the handler posts the status and the loop goes on to post 'Done' as well
\* (the try inside the loop instead of around it)
PollerRaiseFallsThrough(i) ==
    /\ Running
    /\ pc[i] = "fetch"
    /\ now - FetchStart(i) \in FetchDurations
    /\ pc' = [pc EXCEPT ![i] = "done"]
    /\ ticks' = [ticks EXCEPT ![i] = <<TRUE, @[2]>>]
    /\ device_queue' = Append(Append(device_queue, <<targets[i], "Error">>),
                              <<targets[i], "Done">>)
    /\ UNCHANGED <<now, mainVars, cfgVars, rtrData, start_time, elapsed,
                   family_stats, data_ok, appendPos, wake>>

\* a print on the failure path of the gNMIc call raises (a write to standard
\* output fails): the exception leaves the loop, the handler prints it and
\* device_queue.put({target: 'Error: ...'})
PollerRaise(i) ==
    /\ Running
    /\ pc[i] = "fetch"
    /\ now - FetchStart(i) \in FetchDurations
    /\ pc' = [pc EXCEPT ![i] = "error"]
    /\ ticks' = [ticks EXCEPT ![i] = <<TRUE, @[2]>>]
    /\ device_queue' = Append(device_queue, <<targets[i], "Error">>)
    /\ UNCHANGED <<now, mainVars, cfgVars, rtrData, start_time, elapsed,
                   family_stats, data_ok, appendPos, wake>>

\* number of appends of one tick: the elapsed time, then total and active of
\* every family of family_stats
AppendsPerTick == 1 + 2 * Len(families)

\* for family, stats in family_stats.items(): the families of the result,
\* in the order in which get_protocol_stats_by_family inserted them
StatFamilies(fams, stats) == SelectSeq(fams, LAMBDA f : f \in DOMAIN stats)

\* one .append(...) of the tick; after the last one: time.sleep(1)
PollerAppend(i) ==
    /\ Running
    /\ pc[i] = "append"
    /\ LET k == appendPos[i]
           t == targets[i]
           fams == StatFamilies(families, family_stats[i])
       IN /\ rtrData' = [rtrData EXCEPT ![t] =
                 DictAppend(@, AppendKey(fams, k),
                            AppendValue(fams, family_stats[i], elapsed[i], k))]
          /\ appendPos' = [appendPos EXCEPT ![i] = k + 1]
          /\ IF k + 1 = 1 + 2 * Len(fams)
             THEN /\ pc' = [pc EXCEPT ![i] = "sleep"]
                  /\ wake' = [wake EXCEPT ![i] = SleepUntil(now)]
             ELSE UNCHANGED <<pc, wake>>
    /\ UNCHANGED <<now, mainVars, cfgVars, device_queue, start_time, elapsed,
                   family_stats, data_ok, ticks>>

\* time.sleep(1) returns
PollerWake(i) ==
    /\ Running
    /\ pc[i] = "sleep"
    /\ now >= wake[i]
    /\ pc' = [pc EXCEPT ![i] = "loop"]
    /\ UNCHANGED <<now, mainVars, cfgVars, rtrData, device_queue, start_time,
                   elapsed, family_stats, data_ok, appendPos, wake, ticks>>

----------------------------------------------------------------------------
(* The convergence scan of main() *)

Cmp(op, a, b) ==
    CASE op = ">"  -> a > b
      [] op = ">=" -> a >= b
      [] op = "<"  -> a < b
      [] op = "<=" -> a <= b

\* for i, count in enumerate(route_counts): if count <op> v: ... break
\* the index at which the loop breaks, searching from index i on
RECURSIVE FirstIndex(_, _, _, _)
FirstIndex(route_counts, op, v, i) ==
    IF i >= Len(route_counts) THEN NoIdx
    ELSE IF Cmp(op, route_counts[i + 1], v) THEN i
    ELSE FirstIndex(route_counts, op, v, i + 1)

\* the index of the break itself, without the step back
StepBackNone(i) == i

\* start_idx = max(0, i - 1) at the break
StepBack(i) == Max(0, i - 1)

\* if starting_values[idx] < ending_values[idx]
Increasing(sv, ev) == sv < ev

\* start_idx initialised to 0 instead of None
FindStartDefaultFirst(route_counts, sv, ev) ==
    LET i == FirstIndex(route_counts, IF Increasing(sv, ev) THEN ">" ELSE "<", sv, 0)
    IN  IF i = NoIdx THEN 0 ELSE StepBack(i)

\* the loops that find start_idx
FindStart(route_counts, sv, ev) ==
    LET i == FirstIndex(route_counts, IF Increasing(sv, ev) THEN ">" ELSE "<", sv, 0)
    IN  IF i = NoIdx THEN NoIdx ELSE StepBack(i)

\* the end point found with strict comparisons
FindEndStrict(route_counts, sv, ev) ==
    FirstIndex(route_counts, IF Increasing(sv, ev) THEN ">" ELSE "<", ev, 0)

\* the loops that find end_idx
FindEnd(route_counts, sv, ev) ==
    FirstIndex(route_counts, IF Increasing(sv, ev) THEN ">=" ELSE "<=", ev, 0)

\* the rate without the test of conv_time
ConvRateUnguarded(route_delta, conv_time) == <<route_delta, conv_time>>

\* the rate with an integer division
ConvRateFloor(route_delta, conv_time) ==
    IF conv_time > 0 THEN <<route_delta \div conv_time, 1>> ELSE <<0, 1>>

\* route_delta / conv_time if conv_time > 0 else 0, as the fraction <<n, d>>
ConvRate(route_delta, conv_time) ==
    IF conv_time > 0 THEN <<route_delta, conv_time>> ELSE <<0, 1>>

\* if start_idx is not None and end_idx is not None
BothFound(start_idx, end_idx) == start_idx # NoIdx /\ end_idx # NoIdx

\* if start_idx is None: print("ERROR: Could not find starting value ...")
ErrStart(start_idx, end_idx) ==
    ~BothFound(start_idx, end_idx) /\ start_idx = NoIdx

\* the second message printed only when the first one is not (elif)
ErrEndElif(start_idx, end_idx) ==
    ~BothFound(start_idx, end_idx) /\ start_idx # NoIdx /\ end_idx = NoIdx

\* if end_idx is None: print("ERROR: Could not find ending value ...")
ErrEnd(start_idx, end_idx) ==
    ~BothFound(start_idx, end_idx) /\ end_idx = NoIdx

\* what the scan of one family of one target prints
Converge(target, family, route_counts, time_values, sv, ev) ==
    LET start_idx == FindStart(route_counts, sv, ev)
        end_idx == FindEnd(route_counts, sv, ev)
        found == BothFound(start_idx, end_idx)
        conv_time == IF found
                     THEN time_values[end_idx + 1] - time_values[start_idx + 1]
                     ELSE 0
    IN  [target |-> target, family |-> family, nodata |-> FALSE,
         start_idx |-> start_idx, end_idx |-> end_idx, found |-> found,
         start_time |-> IF found THEN time_values[start_idx + 1] ELSE 0,
         end_time |-> IF found THEN time_values[end_idx + 1] ELSE 0,
         conv_time |-> conv_time,
         conv_rate |-> IF found THEN ConvRate(Abs(ev - sv), conv_time)
                       ELSE <<0, 1>>,
         err_start |-> ErrStart(start_idx, end_idx),
         err_end |-> ErrEnd(start_idx, end_idx)]

\* time_values[start_idx] or time_values[end_idx] raises IndexError: both
\* indices are found and time_values is too short for one of them
ScanRaises(route_counts, time_values, sv, ev) ==
    LET start_idx == FindStart(route_counts, sv, ev)
        end_idx == FindEnd(route_counts, sv, ev)
    IN  /\ BothFound(start_idx, end_idx)
        /\ (start_idx >= Len(time_values) \/ end_idx >= Len(time_values))

\* print(f"  No data for {family}"); continue
NoDataFor(target, family) ==
    [target |-> target, family |-> family, nodata |-> TRUE,
     start_idx |-> NoIdx, end_idx |-> NoIdx, found |-> FALSE,
     start_time |-> 0, end_time |-> 0, conv_time |-> 0, conv_rate |-> <<0, 1>>,
     err_start |-> FALSE, err_end |-> FALSE]

----------------------------------------------------------------------------
(* main() *)

\* the lengths of the threshold lists are not compared with the families
LengthMismatchIgnored(sv, ev, fams) == FALSE

\* len(starting_values) != len(families) or len(ending_values) != len(families)
LengthMismatch(sv, ev, fams) == Len(sv) # Len(fams) \/ Len(ev) # Len(fams)

\* the parsing of the threshold options and the check of their lengths
MainValidate ==
    /\ mainPc = "validate"
    /\ IF starting_values # <<>> /\ ending_values # <<>>
       THEN /\ UNCHANGED <<starting_values, ending_values>>
            /\ mainPc' = IF LengthMismatch(starting_values, ending_values,
                                           families)
                         THEN "exit" ELSE "start"
       ELSE /\ starting_values' = <<>>
            /\ ending_values' = <<>>
            /\ mainPc' = "start"
    /\ UNCHANGED <<now, targets, families, startTime, endTime, stop_threads,
                   stopTime, joinIdx, joinStart, valid_targets, convPos,
                   conv_out, rtrData, device_queue, threadVars>>

\* startTime, endTime, stop_threads = False, one started thread per target
MainStart ==
    /\ mainPc = "start"
    /\ startTime' = now
    /\ endTime' = now + Duration
    /\ stop_threads' = FALSE
    /\ pc' = [i \in Threads |-> "init"]
    /\ mainPc' = "wait"
    /\ UNCHANGED <<now, cfgVars, stopTime, joinIdx, joinStart, valid_targets,
                   convPos, conv_out, rtrData, device_queue, start_time,
                   elapsed, family_stats, data_ok, appendPos, wake, ticks>>

\* the number of samples of a device: the length of its 'Elapsed Time'
SamplesOf(target) ==
    IF target \in DOMAIN rtrData THEN Len(rtrData[target][ElapsedKey]) ELSE 0

\* stop_threads = True without "global stop_threads": a local of main
StopThreadsLocal ==
    /\ stop_threads' = stop_threads
    /\ stopTime' = now
    /\ joinIdx' = 1
    /\ joinStart' = now
    /\ mainPc' = "join"

\* stop_threads = True, then the first t.join(timeout=10) begins
StopThreads ==
    /\ stop_threads' = TRUE
    /\ stopTime' = now
    /\ joinIdx' = 1
    /\ joinStart' = now
    /\ mainPc' = "join"

\* while time.time() < (endTime + 5) ends
MainWaitOver ==
    /\ mainPc = "wait"
    /\ now >= endTime + Grace
    /\ StopThreads
    /\ UNCHANGED <<now, cfgVars, startTime, endTime, valid_targets, convPos,
                   conv_out, rtrData, device_queue, threadVars>>

\* select.select([sys.stdin], ...) reports input: break
MainUserStop ==
    /\ mainPc = "wait"
    /\ now < endTime + Grace
    /\ StopThreads
    /\ UNCHANGED <<now, cfgVars, startTime, endTime, valid_targets, convPos,
                   conv_out, rtrData, device_queue, threadVars>>

\* t.join() without a timeout
JoinReturnsNoTimeout(i) == pc[i] \in Terminal

\* t.join(timeout=10) returns: the thread has ended, or the timeout is over
JoinReturns(i) == pc[i] \in Terminal \/ now >= joinStart + JoinTimeout

MainJoin ==
    /\ mainPc = "join"
    /\ JoinReturns(joinIdx)
    /\ IF joinIdx < Len(targets)
       THEN /\ joinIdx' = joinIdx + 1
            /\ joinStart' = now
            /\ mainPc' = mainPc
       ELSE /\ mainPc' = "check"
            /\ UNCHANGED <<joinIdx, joinStart>>
    /\ UNCHANGED <<now, cfgVars, startTime, endTime, stop_threads, stopTime,
                   valid_targets, convPos, conv_out, rtrData, device_queue,
                   threadVars>>

\* the test of the entry without the test of its keys
HasDataAny(target) == target \in DOMAIN rtrData

\* target in rtrData and len(rtrData[target]['routeStats']) > 1
HasData(target) ==
    target \in DOMAIN rtrData /\ Cardinality(DOMAIN rtrData[target]) > 1

\* the loop that fills valid_targets; sys.exit(1) if it stays empty
MainCheck ==
    /\ mainPc = "check"
    /\ LET valid == SelectSeq(targets, HasData) IN
       /\ valid_targets' = valid
       /\ mainPc' = IF valid = <<>> THEN "exit"
                    ELSE IF starting_values # <<>> /\ ending_values # <<>>
                    THEN "conv" ELSE "report"
       /\ convPos' = <<1, 1>>
    /\ UNCHANGED <<now, cfgVars, startTime, endTime, stop_threads, stopTime,
                   joinIdx, joinStart, conv_out, rtrData, device_queue,
                   threadVars>>

\* a pass of the inner loop that consumes the series it scans
\* (route_counts.pop(0) instead of a read)
MainConvergeConsuming ==
    /\ mainPc = "conv"
    /\ LET target == valid_targets[convPos[1]]
           idx == convPos[2]
           family == families[idx]
           stats == rtrData[target]
           present == total_key(family) \in DOMAIN stats
       IN IF present /\ ScanRaises(stats[total_key(family)], stats[ElapsedKey],
                                   starting_values[idx], ending_values[idx])
          THEN /\ mainPc' = "exit"
               /\ UNCHANGED <<conv_out, convPos, rtrData>>
          ELSE /\ conv_out' = Append(conv_out,
                      IF ~present
                      THEN NoDataFor(target, family)
                      ELSE Converge(target, family, stats[total_key(family)],
                                    stats[ElapsedKey], starting_values[idx],
                                    ending_values[idx]))
               /\ rtrData' = [rtrData EXCEPT ![target] =
                      [k \in DOMAIN stats |->
                          IF k = total_key(family) /\ stats[k] # <<>>
                          THEN Tail(stats[k]) ELSE stats[k]]]
               /\ IF idx < Len(families)
                  THEN /\ convPos' = <<convPos[1], idx + 1>>
                       /\ mainPc' = mainPc
                  ELSE IF convPos[1] < Len(valid_targets)
                  THEN /\ convPos' = <<convPos[1] + 1, 1>>
                       /\ mainPc' = mainPc
                  ELSE /\ convPos' = convPos
                       /\ mainPc' = "report"
    /\ UNCHANGED <<now, cfgVars, startTime, endTime, stop_threads, stopTime,
                   joinIdx, joinStart, valid_targets, device_queue,
                   threadVars>>

\* one pass of the inner loop: for idx, family in enumerate(families); an
\* IndexError of the pass ends main with a traceback
MainConverge ==
    /\ mainPc = "conv"
    /\ LET target == valid_targets[convPos[1]]
           idx == convPos[2]
           family == families[idx]
           stats == rtrData[target]
           present == total_key(family) \in DOMAIN stats
       IN IF present /\ ScanRaises(stats[total_key(family)], stats[ElapsedKey],
                                   starting_values[idx], ending_values[idx])
          THEN /\ mainPc' = "exit"
               /\ UNCHANGED <<conv_out, convPos, rtrData>>
          ELSE /\ conv_out' = Append(conv_out,
                      IF ~present
                      THEN NoDataFor(target, family)
                      ELSE Converge(target, family, stats[total_key(family)],
                                    stats[ElapsedKey], starting_values[idx],
                                    ending_values[idx]))
               /\ rtrData' = rtrData
               /\ IF idx < Len(families)
                  THEN /\ convPos' = <<convPos[1], idx + 1>>
                       /\ mainPc' = mainPc
                  ELSE IF convPos[1] < Len(valid_targets)
                  THEN /\ convPos' = <<convPos[1] + 1, 1>>
                       /\ mainPc' = mainPc
                  ELSE /\ convPos' = convPos
                       /\ mainPc' = "report"
    /\ UNCHANGED <<now, cfgVars, startTime, endTime, stop_threads, stopTime,
                   joinIdx, joinStart, valid_targets, device_queue,
                   threadVars>>

\* make_spreadsheet: if not value: value = 0
ZeroIfFalsy(v) == IF v = 0 THEN 0 ELSE v

SheetData(stats) ==
    [k \in DOMAIN stats |-> [n \in 1..Len(stats[k]) |-> ZeroIfFalsy(stats[k][n])]]

\* the sheets of the valid targets are written; main returns
MainReport ==
    /\ mainPc = "report"
    /\ rtrData' = [t \in DOMAIN rtrData |->
                      IF t \in Range(valid_targets) THEN SheetData(rtrData[t])
                      ELSE rtrData[t]]
    /\ mainPc' = "done"
    /\ UNCHANGED <<now, cfgVars, startTime, endTime, stop_threads, stopTime,
                   joinIdx, joinStart, valid_targets, convPos, conv_out,
                   device_queue, threadVars>>

----------------------------------------------------------------------------
(* The clock *)

\* main blocks: in the wait loop before endTime + 5, in a join that has not
\* returned
MainBlocked ==
    \/ mainPc = "wait" /\ now < endTime + Grace
    \/ mainPc = "join" /\ ~JoinReturns(joinIdx)

\* thread i blocks: not yet scheduled, in the gNMIc call, asleep, or ended
ThreadBlocked(i) ==
    \/ pc[i] = "init" /\ now < startTime + MaxStartDelay
    \/ pc[i] = "fetch" /\ now - FetchStart(i) < gnmic_timeout
    \/ pc[i] = "sleep" /\ now < wake[i]
    \/ pc[i] \in Terminal

Tick ==
    /\ MainBlocked
    /\ \A i \in Threads : ThreadBlocked(i)
    /\ now' = now + 1
    /\ UNCHANGED <<mainVars, cfgVars, rtrData, device_queue, threadVars>>

----------------------------------------------------------------------------
(* The runs of the program *)

TargetLists == {<<"r1", "r2">>}

\* the --start-values and --end-values options, parsed; <<>>: not given
ThresholdOptions ==
    { <<<<>>, <<>>>>, <<<<0>>, <<2>>>>, <<<<0, 1>>, <<2, 0>>>> }

ThreadInit ==
    /\ pc = [i \in Threads |-> "new"]
    /\ start_time = [i \in Threads |-> 0]
    /\ elapsed = [i \in Threads |-> 0]
    /\ family_stats = [i \in Threads |-> Zeros(families)]
    /\ data_ok = [i \in Threads |-> FALSE]
    /\ appendPos = [i \in Threads |-> 0]
    /\ wake = [i \in Threads |-> 0]
    /\ ticks = [i \in Threads |-> <<FALSE, FALSE>>]

Init ==
    /\ now = 0
    /\ mainPc = "validate"
    /\ targets \in TargetLists
    /\ families = FamilyList
    /\ \E o \in ThresholdOptions : starting_values = o[1] /\ ending_values = o[2]
    /\ startTime = 0
    /\ endTime = 0
    /\ stop_threads = FALSE
    /\ stopTime = 0
    /\ joinIdx = 1
    /\ joinStart = 0
    /\ valid_targets = <<>>
    /\ convPos = <<1, 1>>
    /\ conv_out = <<>>
    /\ rtrData = <<>>
    /\ device_queue = <<>>
    /\ ThreadInit

Poller(i) ==
    \/ PollerStart(i)
    \/ PollerTick(i)
    \/ PollerDone(i)
    \/ PollerFetched(i)
    \/ PollerRaise(i)
    \/ PollerAppend(i)
    \/ PollerWake(i)

Main ==
    \/ MainValidate
    \/ MainStart
    \/ MainWaitOver
    \/ MainUserStop
    \/ MainJoin
    \/ MainCheck
    \/ MainConverge
    \/ MainReport

Next ==
    \/ Main
    \/ \E i \in Threads : Poller(i)
    \/ Tick

Spec == Init /\ [][Next]_vars

----------------------------------------------------------------------------
(* The runs in which --targets names the same device twice: targets keeps  *)
(* both names, and main starts one thread for each                         *)

\* [t.strip() for t in args.targets.split(',')] for -t r1,r1
DupTargets == <<"r1", "r1">>

DupInit ==
    /\ now = 0
    /\ mainPc = "validate"
    /\ targets = DupTargets
    /\ families = FamilyList
    /\ starting_values = <<0, 1>>
    /\ ending_values = <<2, 0>>
    /\ startTime = 0
    /\ endTime = 0
    /\ stop_threads = FALSE
    /\ stopTime = 0
    /\ joinIdx = 1
    /\ joinStart = 0
    /\ valid_targets = <<>>
    /\ convPos = <<1, 1>>
    /\ conv_out = <<>>
    /\ rtrData = <<>>
    /\ device_queue = <<>>
    /\ ThreadInit

DupSpec == DupInit /\ [][Next]_vars

----------------------------------------------------------------------------
(* The convergence scan on its own: main() at the scan with every thread   *)
(* ended, for every series of one device within the bounds below; the      *)
(* device is named once or twice in --targets, and is then scanned as      *)
(* often                                                                   *)

\* longest series of the scanned device
MaxScanLen == 4

\* the route counts a sample may hold
ScanCounts == {5, 12, 20}

\* the thresholds of --start-values and --end-values
ScanThresholds == {5, 10, 20}

\* the --targets option of the scanned runs
ScanTargetLists == {<<"r1">>, <<"r1", "r1">>}

\* the sequences over S of length 0 (the empty series) to n
SeqsUpTo(S, n) == UNION {[1..m -> S] : m \in 0..n}

\* the elements of a set of numbers, in increasing order
RECURSIVE Sorted(_)
Sorted(S) ==
    IF S = {} THEN <<>>
    ELSE LET m == CHOOSE x \in S : \A y \in S : x <= y
         IN  <<m>> \o Sorted(S \ {m})

ScanInit ==
    /\ targets \in ScanTargetLists
    /\ families = <<"ipv4-unicast">>
    /\ \E sv, ev \in ScanThresholds :
         starting_values = <<sv>> /\ ending_values = <<ev>>
    /\ \E counts \in SeqsUpTo(ScanCounts, MaxScanLen) :
       \E S \in SUBSET (0..MaxScanLen) :
         /\ Cardinality(S) = Len(counts)
         /\ rtrData = [t \in {"r1"} |->
               [k \in {ElapsedKey, total_key("ipv4-unicast"),
                       active_key("ipv4-unicast")} |->
                   IF k = ElapsedKey THEN Sorted(S) ELSE counts]]
    /\ now = Grace
    /\ mainPc = "conv"
    /\ startTime = 0
    /\ endTime = 0
    /\ stop_threads = TRUE
    /\ stopTime = Grace
    /\ joinIdx = 1
    /\ joinStart = Grace
    /\ valid_targets = targets
    /\ convPos = <<1, 1>>
    /\ conv_out = <<>>
    /\ device_queue = [i \in Threads |-> <<targets[i], "Done">>]
    /\ pc = [i \in Threads |-> "done"]
    /\ start_time = [i \in Threads |-> 0]
    /\ elapsed = [i \in Threads |-> 0]
    /\ family_stats = [i \in Threads |-> Zeros(families)]
    /\ data_ok = [i \in Threads |-> TRUE]
    /\ appendPos = [i \in Threads |-> AppendsPerTick]
    /\ wake = [i \in Threads |-> 0]
    /\ ticks = [i \in Threads |-> <<FALSE, TRUE>>]

ScanNext ==
    \/ MainConverge
    \/ MainReport

ScanSpec == ScanInit /\ [][ScanNext]_vars

----------------------------------------------------------------------------
(* Properties *)

IsPrefix(s, t) == Len(s) <= Len(t) /\ \A n \in 1..Len(s) : s[n] = t[n]

MetricKeys == UNION {{total_key(f), active_key(f)} : f \in Range(families)}

\* main reads rtrData: validity check, convergence scan, report
Reading == mainPc \in {"check", "conv", "report", "done"}

\* every metric sequence of the target holds at least one value
HasSample(t) ==
    \A k \in MetricKeys : k \in DOMAIN rtrData[t] /\ Len(rtrData[t][k]) >= 1

ElapsedSeq(t) == rtrData[t][ElapsedKey]

\* C1: once main has stopped and joined the threads and reads rtrData, every
\* metric sequence of a device that has a sample is as long as the device's
\* 'Elapsed Time' sequence.
C1_AlignedWhenRead ==
    Reading =>
        \A t \in DOMAIN rtrData :
            HasSample(t) =>
                \A k \in MetricKeys : Len(rtrData[t][k]) = Len(ElapsedSeq(t))

C3_FailedTickAppendsNothing ==
    [][\A i \in Threads :
          (pc[i] = "append" /\ ~data_ok[i]) => rtrData'[targets[i]] = rtrData[targets[i]]]_vars

\* C4: after the validity check, a device whose every gNMIc call failed (and
\* which made at least one) has zero samples, is no valid target, and has no
\* convergence scan.
C4_AllFailedMeansNoData ==
    \A i \in Threads :
        (mainPc \in {"conv", "report", "done", "exit"}
         /\ ticks[i] = <<TRUE, FALSE>> /\ pc[i] \in Terminal)
            => /\ Len(ElapsedSeq(targets[i])) = 0
               /\ targets[i] \notin Range(valid_targets)
               /\ \A n \in 1..Len(conv_out) : conv_out[n].target # targets[i]

C7_AlignedAlways ==
    \A t \in DOMAIN rtrData :
        \A k1, k2 \in DOMAIN rtrData[t] : Len(rtrData[t][k1]) = Len(rtrData[t][k2])

----------------------------------------------------------------------------
(* Properties of the convergence scan, on what it reported *)

FamilyIdx(family) == CHOOSE n \in 1..Len(families) : families[n] = family

\* the inputs of report r of the scan
CountsOf(r) == rtrData[r.target][total_key(r.family)]

TimesOf(r) == rtrData[r.target][ElapsedKey]

StartOf(r) == starting_values[FamilyIdx(r.family)]

EndOf(r) == ending_values[FamilyIdx(r.family)]

Scanned == {n \in 1..Len(conv_out) : ~conv_out[n].nodata}

\* the example of the specification: values [5, 5, 12, 20], start 10, end 20
IsExample(r) == CountsOf(r) = <<5, 5, 12, 20>> /\ StartOf(r) = 10 /\ EndOf(r) = 20

\* value[i] is past the start threshold (i is 0-based)
PastStart(r, i) ==
    IF StartOf(r) < EndOf(r) THEN CountsOf(r)[i + 1] > StartOf(r)
    ELSE CountsOf(r)[i + 1] < StartOf(r)

\* value[i] has reached the end threshold (i is 0-based)
ReachedEnd(r, i) ==
    IF StartOf(r) < EndOf(r) THEN CountsOf(r)[i + 1] >= EndOf(r)
    ELSE CountsOf(r)[i + 1] <= EndOf(r)

Indices(r) == 0..(Len(CountsOf(r)) - 1)

\* C8: the start index is max(0, i - 1) for the least i whose value is past
\* the start threshold (above it when start < end, below it otherwise), and
\* not found when there is no such i; it is 1 on the example.
C8_StartIndex ==
    \A n \in Scanned :
        LET r == conv_out[n] IN
        /\ r.start_idx = NoIdx <=> \A i \in Indices(r) : ~PastStart(r, i)
        /\ r.start_idx # NoIdx =>
               \E i \in Indices(r) :
                   /\ PastStart(r, i)
                   /\ \A j \in 0..(i - 1) : ~PastStart(r, j)
                   /\ r.start_idx = IF i - 1 > 0 THEN i - 1 ELSE 0
        /\ IsExample(r) => r.start_idx = 1

C8_Witness ==
    \E n \in Scanned : IsExample(conv_out[n]) /\ conv_out[n].start_idx = 1

\* C9: the end index is the least i whose value has reached the end
\* threshold (>= when start < end, <= otherwise), with no step back, and not
\* found when there is no such i; it is 3 on the example.
C9_EndIndex ==
    \A n \in Scanned :
        LET r == conv_out[n] IN
        /\ r.end_idx = NoIdx <=> \A i \in Indices(r) : ~ReachedEnd(r, i)
        /\ r.end_idx # NoIdx =>
               /\ r.end_idx \in Indices(r)
               /\ ReachedEnd(r, r.end_idx)
               /\ \A j \in 0..(r.end_idx - 1) : ~ReachedEnd(r, j)
        /\ IsExample(r) => r.end_idx = 3

C9_Witness ==
    \E n \in Scanned : IsExample(conv_out[n]) /\ conv_out[n].end_idx = 3

\* C10: with both indices found, the convergence time is elapsed[end_idx] -
\* elapsed[start_idx] and, when it is positive, the rate times it is
\* |end - start|; on the example with elapsed [0, 1, 2, 3] they are 2 and 5.
C10_TimeAndRate ==
    \A n \in Scanned :
        LET r == conv_out[n] IN
        (r.start_idx # NoIdx /\ r.end_idx # NoIdx) =>
            /\ r.found
            /\ r.conv_time = TimesOf(r)[r.end_idx + 1] - TimesOf(r)[r.start_idx + 1]
            /\ r.conv_time > 0 =>
                   /\ r.conv_rate[2] > 0
                   /\ r.conv_rate[1] * r.conv_time
                          = Abs(EndOf(r) - StartOf(r)) * r.conv_rate[2]
            /\ (IsExample(r) /\ TimesOf(r) = <<0, 1, 2, 3>>) =>
                   /\ r.conv_time = 2
                   /\ r.conv_rate[1] = 5 * r.conv_rate[2]

C10_Witness ==
    \E n \in Scanned :
        /\ IsExample(conv_out[n])
        /\ TimesOf(conv_out[n]) = <<0, 1, 2, 3>>
        /\ conv_out[n].conv_time = 2
        /\ conv_out[n].conv_rate = <<10, 2>>

\* both indices of report r were found
FoundBoth(r) == r.start_idx # NoIdx /\ r.end_idx # NoIdx

\* no sample of the series is past the start threshold
MissingStart(r) == \A i \in Indices(r) : ~PastStart(r, i)

\* no sample of the series has reached the end threshold
MissingEnd(r) == \A i \in Indices(r) : ~ReachedEnd(r, i)

\* report r gives no times and no rate
NothingReported(r) ==
    /\ r.start_time = 0
    /\ r.end_time = 0
    /\ r.conv_time = 0
    /\ r.conv_rate = <<0, 1>>

\* C11: the rate of a found crossing never has the denominator 0; when both
\* indices are found and the two elapsed times are equal (as they are when
\* start_idx = end_idx), the convergence time is 0, the rate is exactly 0 and
\* the result is a found crossing without an error message.
C11_ZeroTimeZeroRate ==
    \A n \in Scanned :
        LET r == conv_out[n] IN
        /\ FoundBoth(r) => r.conv_rate[2] # 0
        /\ (FoundBoth(r) /\ r.start_idx = r.end_idx) => r.conv_time = 0
        /\ (FoundBoth(r)
            /\ TimesOf(r)[r.end_idx + 1] = TimesOf(r)[r.start_idx + 1]) =>
               /\ r.found
               /\ r.conv_time = 0
               /\ r.conv_rate[1] = 0
               /\ ~r.err_start
               /\ ~r.err_end

C11_Witness ==
    \E n \in Scanned :
        LET r == conv_out[n] IN
        /\ FoundBoth(r)
        /\ r.start_idx = r.end_idx
        /\ StartOf(r) # EndOf(r)
        /\ r.found
        /\ r.conv_time = 0
        /\ r.conv_rate = <<0, 1>>

\* C12: on the values [5, 5, 12, 20] with elapsed [0, 1, 2, 3], start 20 and
\* end 5, the scan finds no start index and reports the missing start.
C12_DecreasingExample ==
    \A n \in Scanned :
        LET r == conv_out[n] IN
        (/\ CountsOf(r) = <<5, 5, 12, 20>>
         /\ TimesOf(r) = <<0, 1, 2, 3>>
         /\ StartOf(r) = 20
         /\ EndOf(r) = 5) =>
            /\ r.start_idx = NoIdx
            /\ ~r.found
            /\ r.err_start

\* C13: when no sample is past the start threshold or none has reached the
\* end threshold, the scan reports no times and no rate; the message for the
\* start is printed exactly when the start is missing and the message for
\* the end exactly when the end is missing, so that a missing start, a
\* missing end and both missing are three different outcomes.
C13_NotFoundCases ==
    \A n \in Scanned :
        LET r == conv_out[n] IN
        /\ (MissingStart(r) \/ MissingEnd(r)) => ~r.found /\ NothingReported(r)
        /\ r.err_start <=> MissingStart(r)
        /\ r.err_end <=> MissingEnd(r)
        /\ r.found <=> (~MissingStart(r) /\ ~MissingEnd(r))

C13_Witness ==
    \E n \in Scanned :
        LET r == conv_out[n] IN
        /\ Len(CountsOf(r)) >= 2
        /\ MissingStart(r)
        /\ MissingEnd(r)
        /\ r.err_start
        /\ r.err_end
        /\ NothingReported(r)

\* C14: the scan of an empty series, for every pair of thresholds, finds
\* neither index, reports both as missing and no times or rate, and main
\* goes on to the report.
C14_EmptySeries ==
    \A n \in Scanned :
        LET r == conv_out[n] IN
        CountsOf(r) = <<>> =>
            /\ r.start_idx = NoIdx
            /\ r.end_idx = NoIdx
            /\ ~r.found
            /\ r.err_start
            /\ r.err_end
            /\ NothingReported(r)

C14_Witness ==
    /\ mainPc = "done"
    /\ \E n \in Scanned :
          /\ CountsOf(conv_out[n]) = <<>>
          /\ ~conv_out[n].found
          /\ conv_out[n].err_start
          /\ conv_out[n].err_end

\* C15: a pass of the scan changes neither the series nor the thresholds nor
\* the reports already made, and its report equals every earlier report of
\* the same device and family.
C15_Idempotent ==
    [][mainPc = "conv" =>
          /\ rtrData' = rtrData
          /\ starting_values' = starting_values
          /\ ending_values' = ending_values
          /\ Len(conv_out') = Len(conv_out) + 1
          /\ \A n \in 1..Len(conv_out) :
                /\ conv_out'[n] = conv_out[n]
                /\ (/\ conv_out[n].target = conv_out'[Len(conv_out')].target
                    /\ conv_out[n].family = conv_out'[Len(conv_out')].family)
                       => conv_out'[Len(conv_out')] = conv_out[n]]_vars

C15_Witness ==
    /\ Len(conv_out) = 2
    /\ conv_out[1].target = conv_out[2].target
    /\ conv_out[1].family = conv_out[2].family
    /\ conv_out[1] = conv_out[2]
    /\ conv_out[1].found
    /\ conv_out[1].conv_time > 0

\* C27: with both indices found, the start index is not after the end index
\* and the convergence time is not negative.
C27_StartNotAfterEnd ==
    \A n \in Scanned :
        LET r == conv_out[n] IN
        FoundBoth(r) =>
            /\ r.start_idx <= r.end_idx
            /\ r.conv_time >= 0

----------------------------------------------------------------------------
(* Properties of the configuration, of the errors and of the ownership of  *)
(* the entries                                                             *)

\* both threshold lists are given and one of them is not as long as families
ConfigMismatch ==
    /\ starting_values # <<>>
    /\ ending_values # <<>>
    /\ (Len(starting_values) # Len(families)
        \/ Len(ending_values) # Len(families))

\* C16: with both threshold lists given and one of a length other than the
\* number of families, main exits at the validation: no thread is ever
\* started, no entry is created and no status is posted.
C16_MismatchAbortsBeforeStart ==
    ConfigMismatch =>
        /\ mainPc \in {"validate", "exit"}
        /\ \A i \in Threads : pc[i] = "new"
        /\ rtrData = <<>>
        /\ device_queue = <<>>

C16_Witness ==
    /\ ConfigMismatch
    /\ mainPc = "exit"
    /\ \A i \in Threads : pc[i] = "new"

\* this step is a step of thread i
ThreadStep(i) ==
    /\ pc[i] # "new"
    /\ (pc'[i] # pc[i] \/ appendPos'[i] # appendPos[i])

\* this step leaves everything that belongs to thread j as it is
ThreadUntouched(j) ==
    /\ pc'[j] = pc[j]
    /\ start_time'[j] = start_time[j]
    /\ elapsed'[j] = elapsed[j]
    /\ family_stats'[j] = family_stats[j]
    /\ appendPos'[j] = appendPos[j]
    /\ wake'[j] = wake[j]
    /\ targets[j] \in DOMAIN rtrData =>
           rtrData'[targets[j]] = rtrData[targets[j]]

\* C17: a step of one thread, a failed gNMIc call and a raised exception
\* included, changes nothing of main and nothing of another thread; a gNMIc
\* call that ends without an exception leaves the thread in its loop; an
\* exception ends the thread with the status 'Error' of its device; and a
\* thread posts 'Done' only once the flag is set or its own duration is over.
C17_ErrorsStayLocal ==
    [][\A i \in Threads :
          ThreadStep(i) =>
              /\ mainVars' = mainVars
              /\ \A j \in Threads \ {i} : ThreadUntouched(j)
              /\ (pc[i] = "fetch" /\ pc'[i] # "error") =>
                     /\ pc'[i] \in {"append", "sleep"}
                     /\ device_queue' = device_queue
              /\ pc'[i] = "error" =>
                     /\ pc[i] = "fetch"
                     /\ device_queue' =
                            Append(device_queue, <<targets[i], "Error">>)
              /\ pc'[i] = "done" =>
                     /\ stop_threads \/ now - start_time[i] >= Duration
                     /\ device_queue' =
                            Append(device_queue, <<targets[i], "Done">>)]_vars

C17_Witness ==
    \E i, j \in Threads :
        /\ i # j
        /\ pc[i] = "error"
        /\ Len(ElapsedSeq(targets[i])) = 0
        /\ \E n \in 1..Len(device_queue) :
               device_queue[n] = <<targets[i], "Error">>
        /\ ticks[j] = <<TRUE, TRUE>>
        /\ pc[j] = "done"
        /\ Len(ElapsedSeq(targets[j])) >= 2
        /\ mainPc = "done"

\* C18: once main reads rtrData (validity check, scan, report), no step of a
\* thread changes rtrData.
C18_FrozenAfterJoin ==
    [][\A i \in Threads :
          (Reading /\ ThreadStep(i)) => rtrData' = rtrData]_vars

\* C19: a thread that changes rtrData changes the entry of its own device
\* only, and no other thread has written that entry.
C19_OneWriterPerEntry ==
    [][\A i \in Threads :
          (ThreadStep(i) /\ rtrData' # rtrData) =>
              /\ \A t \in DOMAIN rtrData \ {targets[i]} :
                     rtrData'[t] = rtrData[t]
              /\ \A j \in Threads \ {i} :
                     targets[j] = targets[i] => pc[j] \in {"new", "init"}]_vars

\* the families that no response holds
AbsentFamilies ==
    {f \in Range(families) : \A r \in Responses : f \notin DOMAIN r}

\* C20: between the ticks of its thread, a device that has a sample has the
\* total and the active sequence of every configured family, each as long as
\* 'Elapsed Time'; a family that no response holds has the value 0 in every
\* sample.
C20_EveryFamilyInEverySample ==
    LET keys == MetricKeys
        absent == UNION {{total_key(f), active_key(f)} : f \in AbsentFamilies}
    IN  \A i \in Threads :
            LET t == targets[i] IN
            (/\ t \in DOMAIN rtrData
             /\ pc[i] # "append"
             /\ Len(ElapsedSeq(t)) >= 1) =>
                /\ DOMAIN rtrData[t] = {ElapsedKey} \cup keys
                /\ \A k \in keys : Len(rtrData[t][k]) = Len(ElapsedSeq(t))
                /\ \A k \in absent :
                   \A n \in 1..Len(rtrData[t][k]) : rtrData[t][k][n] = 0

C20_Witness ==
    \E i \in Threads :
        LET t == targets[i] IN
        /\ t \in DOMAIN rtrData
        /\ pc[i] = "sleep"
        /\ data_ok[i]
        /\ AbsentFamilies # {}
        /\ Len(ElapsedSeq(t)) >= 2
        /\ DOMAIN rtrData[t] = {ElapsedKey} \cup MetricKeys
        /\ rtrData[t][total_key("ipv4-unicast")][Len(ElapsedSeq(t))] = 2
        /\ rtrData[t][total_key("ipv6-unicast")][Len(ElapsedSeq(t))] = 0

----------------------------------------------------------------------------
(* Properties of the stop, of the statuses and of the end of the run       *)

\* the statuses that thread i has posted
Posted(i) ==
    {n \in 1..Len(device_queue) : device_queue[n][1] = targets[i]}

\* C21: the flag is read in the loop test only: with the flag set, a thread
\* at its loop test ends and begins no tick, while a thread in its gNMIc
\* call, at its appends or asleep goes on as without the flag. A tick in
\* progress with the flag set began before the flag was set and not before
\* the sleep after the previous commit was over, so that it is the only tick
\* of its thread to commit a sample after the flag was set.
C21_CooperativeStop ==
    [][\A i \in Threads :
          /\ (stop_threads' /\ pc'[i] \in {"fetch", "append"}) =>
                 /\ start_time'[i] + elapsed'[i] <= stopTime'
                 /\ wake'[i] <= start_time'[i] + elapsed'[i]
          /\ ThreadStep(i) =>
                 /\ (pc[i] = "loop" /\ stop_threads) => pc'[i] = "done"
                 /\ pc'[i] = "fetch" => pc[i] = "loop" /\ ~stop_threads
                 /\ pc[i] = "fetch" => pc'[i] \in {"append", "sleep", "error"}
                 /\ pc[i] = "append" =>
                        /\ pc'[i] \in {"append", "sleep"}
                        /\ rtrData'[targets[i]] # rtrData[targets[i]]
                 /\ pc'[i] = "sleep" => wake'[i] = now + PollSleep
                 /\ pc[i] = "sleep" => pc'[i] = "loop" /\ now >= wake[i]]_vars

C21_Witness ==
    \E i, j \in Threads :
        /\ stop_threads
        /\ pc[i] = "append"
        /\ SamplesOf(targets[i]) >= 2
        /\ pc[j] = "done"
        /\ now - start_time[j] < Duration

\* C22: a thread ends with 'Done' exactly by a loop test that fails (the
\* flag is set or its duration is over), and with 'Error' by an exception
\* in its loop; the status is posted by the step that ends it, and a thread
\* that has ended takes no further step.
C22_TerminalStatus ==
    [][\A i \in Threads :
          /\ ThreadStep(i) =>
                 /\ pc[i] \notin Terminal
                 /\ (/\ pc[i] = "loop"
                     /\ (stop_threads \/ now - start_time[i] >= Duration)) =>
                        /\ pc'[i] = "done"
                        /\ device_queue' =
                               Append(device_queue, <<targets[i], "Done">>)
                 /\ pc'[i] = "done" =>
                        /\ pc[i] = "loop"
                        /\ stop_threads \/ now - start_time[i] >= Duration
                 /\ pc'[i] = "error" =>
                        /\ pc[i] = "fetch"
                        /\ device_queue' =
                               Append(device_queue, <<targets[i], "Error">>)
                 /\ pc'[i] \notin Terminal => device_queue' = device_queue
          /\ pc[i] \in Terminal =>
                 /\ pc'[i] = pc[i]
                 /\ elapsed'[i] = elapsed[i]
                 /\ appendPos'[i] = appendPos[i]]_vars

C22_Witness ==
    \E i, j \in Threads :
        /\ ~stop_threads
        /\ pc[i] = "done"
        /\ now - start_time[i] >= Duration
        /\ device_queue[Len(device_queue)] = <<targets[i], "Done">>
        /\ pc[j] = "error"
        /\ device_queue[1] = <<targets[j], "Error">>

\* main has left the join loop
Joined == mainPc \in {"check", "conv", "report", "done"}

\* C23: main waits no longer than until endTime + 5 and leaves the wait by
\* setting the flag; every join lasts at most 10 s, so that main is past the
\* joins at most 10 s per thread after the flag was set, whether or not the
\* threads have ended; and a thread that has not ended at the validity check
\* has its device among the valid targets when the device has data.
C23_WaitEnds ==
    [][/\ mainPc' = "wait" => now' <= endTime' + Grace
       /\ (mainPc = "wait" /\ mainPc' # "wait") =>
              /\ mainPc' = "join"
              /\ stop_threads'
              /\ stopTime' = now
              /\ now <= endTime + Grace
       /\ mainPc' = "join" =>
              /\ now' <= joinStart' + JoinTimeout
              /\ joinStart' <= stopTime' + (joinIdx' - 1) * JoinTimeout
       /\ Joined' => now' <= stopTime' + Len(targets) * JoinTimeout
       /\ (mainPc = "check" /\ mainPc' # "check") =>
              \A i \in Threads :
                  (pc[i] \notin Terminal /\ HasData(targets[i])) =>
                      targets[i] \in Range(valid_targets')]_vars

C23_Witness ==
    \E i \in Threads :
        /\ mainPc = "done"
        /\ pc[i] \notin Terminal
        /\ now = stopTime + JoinTimeout
        /\ targets[i] \in Range(valid_targets)
        /\ SamplesOf(targets[i]) >= 1

\* C24: every tick in progress began before startTime + duration, the
\* endTime of main, and its elapsed time is the time since startTime.
C24_SharedDeadline ==
    \A i \in Threads :
        pc[i] \in {"fetch", "append"} =>
            /\ FetchStart(i) < endTime
            /\ elapsed[i] = FetchStart(i) - startTime

\* the devices that have data: an entry with more keys than 'Elapsed Time'
Usable ==
    {t \in Range(targets) :
        t \in DOMAIN rtrData /\ Cardinality(DOMAIN rtrData[t]) > 1}

\* the devices that the scan has reported on
ScannedTargets == {conv_out[n].target : n \in 1..Len(conv_out)}

\* C25: the validity check makes valid_targets the devices that have data;
\* when there is none main exits, with no scan and no report, and otherwise
\* it goes on; the scan reports on valid targets only and, when main is
\* done, on every one of them.
C25_UsableDataDecides ==
    [][/\ (mainPc = "check" /\ mainPc' # "check") =>
              /\ Range(valid_targets') = Usable
              /\ Usable = {} => mainPc' = "exit"
              /\ Usable # {} => mainPc' \in {"conv", "report"}
       /\ mainPc' = "exit" => conv_out' = <<>>
       /\ ScannedTargets' \subseteq Range(valid_targets')
       /\ mainPc' \in {"conv", "report", "done"} => valid_targets' # <<>>
       /\ (mainPc' = "done" /\ starting_values' # <<>>) =>
              /\ ScannedTargets' = Range(valid_targets')
              /\ Len(conv_out') = Len(valid_targets') * Len(families)]_vars

C25_Witness ==
    \E i, j \in Threads :
        /\ mainPc = "done"
        /\ valid_targets = <<targets[i]>>
        /\ targets[j] \notin Usable
        /\ targets[j] # targets[i]
        /\ ScannedTargets = {targets[i]}

\* C26: the flag is unset when the threads are started, it changes only by
\* the step of main that ends the wait, which sets it, no step of a thread
\* changes it, and it stays set from then on.
C26_SetOnce ==
    [][/\ stop_threads => stop_threads'
       /\ stop_threads' # stop_threads => mainPc = "wait" /\ mainPc' = "join"
       /\ (\E i \in Threads : pc[i] = "new" /\ pc'[i] = "init") => ~stop_threads'
       /\ \A i \in Threads : ThreadStep(i) => stop_threads' = stop_threads
       /\ (mainPc' = "join" \/ Joined') => stop_threads']_vars

C26_Witness ==
    /\ stop_threads
    /\ mainPc = "done"
    /\ now > stopTime
    /\ \E i \in Threads : pc[i] = "done" /\ SamplesOf(targets[i]) >= 2

====
